---------------------------- MODULE Spec2Model ----------------------------
(***************************************************************************)
(* MCPrism gateway proof of concept: the tools table of mcp-tools.db, the  *)
(* populate script that fills it (INSERT OR REPLACE), and the gateway's    *)
(* HTTP handlers (/health, /tools, /search, /tool/:name, /execute) with    *)
(* the lazily loaded embedding model behind /search.                       *)
(*                                                                         *)
(* Numbers: a similarity is kept in hundredths (cos_sim * 100), vectors    *)
(* are integer vectors (the unit vectors of the embedding model scaled to  *)
(* length 5), so that every ranking is exact.                              *)
(***************************************************************************)
EXTENDS Integers, Sequences, FiniteSets, TLC

\* Number of /search requests the gateway serves in one behaviour.
MaxRequests == 2

Requests == 1..MaxRequests

\* limit = 5 in searchTools' signature and in the /search body destructuring.
DefaultLimit == 5

-----------------------------------------------------------------------------
(* JSON documents (a tool's inputSchema).  A value is a tagged tree; an    *)
(* object keeps its members as a sequence of <<key, value>> in insertion   *)
(* order, as a JavaScript object does for string keys.                     *)

JString(s) == [t |-> "string", v |-> s]
JBool(b) == [t |-> "boolean", v |-> b]
JArray(elems) == [t |-> "array", v |-> elems]
JObject(members) == [t |-> "object", v |-> members]

\* The serialized text, token by token: a punctuation mark, a quoted string
\* or a literal.
Tok(kind, text) == [k |-> kind, s |-> text]

RECURSIVE JSONstringify(_)
RECURSIVE StringifyElements(_)
RECURSIVE StringifyMembers(_)

\* Mutant of StringifyElements: an array is cut to its first element.
StringifyFirstElement(elems) ==
    IF elems = <<>> THEN <<>> ELSE JSONstringify(Head(elems))

StringifyElements(elems) ==
    IF elems = <<>> THEN <<>>
    ELSE JSONstringify(Head(elems))
         \o (IF Tail(elems) = <<>> THEN <<>> ELSE <<Tok("punct", ",")>>)
         \o StringifyElements(Tail(elems))

StringifyMembers(members) ==
    IF members = <<>> THEN <<>>
    ELSE <<Tok("str", Head(members)[1]), Tok("punct", ":")>>
         \o JSONstringify(Head(members)[2])
         \o (IF Tail(members) = <<>> THEN <<>> ELSE <<Tok("punct", ",")>>)
         \o StringifyMembers(Tail(members))

JSONstringify(val) ==
    CASE val.t = "string" -> <<Tok("str", val.v)>>
      [] val.t = "boolean" -> <<Tok("lit", IF val.v THEN "true" ELSE "false")>>
      [] val.t = "array" ->
            <<Tok("punct", "[")>> \o StringifyElements(val.v) \o <<Tok("punct", "]")>>
      [] val.t = "object" ->
            <<Tok("punct", "{")>> \o StringifyMembers(val.v) \o <<Tok("punct", "}")>>

\* A parse step yields the value read and the tokens left.
RECURSIVE ParseValue(_)
RECURSIVE ParseElements(_, _)
RECURSIVE ParseMembers(_, _)

ParseElements(toks, acc) ==
    IF Head(toks) = Tok("punct", "]") THEN [val |-> JArray(acc), rest |-> Tail(toks)]
    ELSE LET start == IF Head(toks) = Tok("punct", ",") THEN Tail(toks) ELSE toks
             e == ParseValue(start)
         IN  ParseElements(e.rest, Append(acc, e.val))

ParseMembers(toks, acc) ==
    IF Head(toks) = Tok("punct", "}") THEN [val |-> JObject(acc), rest |-> Tail(toks)]
    ELSE LET start == IF Head(toks) = Tok("punct", ",") THEN Tail(toks) ELSE toks
             key == Head(start).s
             \* start[2] is the ":" after the key
             m == ParseValue(Tail(Tail(start)))
         IN  ParseMembers(m.rest, Append(acc, <<key, m.val>>))

ParseValue(toks) ==
    LET h == Head(toks) IN
    CASE h.k = "str" -> [val |-> JString(h.s), rest |-> Tail(toks)]
      [] h.k = "lit" -> [val |-> JBool(h.s = "true"), rest |-> Tail(toks)]
      [] h = Tok("punct", "[") -> ParseElements(Tail(toks), <<>>)
      [] h = Tok("punct", "{") -> ParseMembers(Tail(toks), <<>>)

JSONparse(text) == ParseValue(text).val

-----------------------------------------------------------------------------
(* Vector arithmetic of @xenova/transformers, as searchTools uses it.      *)

RECURSIVE dot(_, _)
\* sum over i < arr1.length of arr1[i] * arr2[i]
dot(arr1, arr2) ==
    IF arr1 = <<>> THEN 0
    ELSE Head(arr1) * Head(arr2) + dot(Tail(arr1), Tail(arr2))

ISqrt(n) == CHOOSE m \in 0..n : m * m <= n /\ (m + 1) * (m + 1) > n

magnitude(arr) == ISqrt(dot(arr, arr))

\* dot / (|arr1| * |arr2|), in hundredths.  The loop of dot runs over arr1
\* (the query) only: a longer arr2 contributes its first components to the
\* product and all of them to its magnitude.
cos_sim(arr1, arr2) ==
    (100 * dot(arr1, SubSeq(arr2, 1, Len(arr1)))) \div (magnitude(arr1) * magnitude(arr2))

-----------------------------------------------------------------------------
(* The tool definitions the populate script carries.  SAMPLE_TOOLS holds   *)
(* entries of the script as shipped and one edited entry (read_file with a *)
(* new description and schema), so that a later run replaces a row.        *)

SchemaPath ==
    JObject(<< <<"type", JString("object")>>,
               <<"properties", JObject(<< <<"path", JObject(<< <<"type", JString("string")>> >>)>> >>)>>,
               <<"required", JArray(<<JString("path")>>)>> >>)

SchemaPathEncoding ==
    JObject(<< <<"type", JString("object")>>,
               <<"properties", JObject(<< <<"path", JObject(<< <<"type", JString("string")>> >>)>>,
                                          <<"encoding", JObject(<< <<"type", JString("string")>> >>)>> >>)>>,
               <<"required", JArray(<<JString("path"), JString("encoding")>>)>> >>)

SchemaUid ==
    JObject(<< <<"type", JString("object")>>,
               <<"properties", JObject(<< <<"uid", JObject(<< <<"type", JString("string")>> >>)>> >>)>>,
               <<"required", JArray(<<JString("uid")>>)>> >>)

SchemaFullPage ==
    JObject(<< <<"type", JString("object")>>,
               <<"properties", JObject(<< <<"fullPage", JObject(<< <<"type", JString("boolean")>>,
                                                                   <<"default", JBool(FALSE)>> >>)>> >>)>> >>)

SAMPLE_TOOLS ==
    { [name |-> "read_file",
       description |-> "Read contents from a file on the local filesystem",
       server |-> "filesystem", category |-> "read", inputSchema |-> SchemaPath],
      [name |-> "read_file",
       description |-> "Read a file with an encoding",
       server |-> "filesystem", category |-> "read", inputSchema |-> SchemaPathEncoding],
      [name |-> "click",
       description |-> "Click on an element in the browser page",
       server |-> "chrome-devtools", category |-> "browser", inputSchema |-> SchemaUid],
      [name |-> "take_screenshot",
       description |-> "Take a screenshot of the current browser page or specific element",
       server |-> "chrome-devtools", category |-> "browser", inputSchema |-> SchemaFullPage] }

ToolNames == {tool.name : tool \in SAMPLE_TOOLS}

\* Position of a string in the ascending (binary collation) order of the
\* strings that occur as names and servers.
StringOrder(s) ==
    CASE s = "chrome-devtools" -> 1
      [] s = "click" -> 2
      [] s = "filesystem" -> 3
      [] s = "nonexistent_tool" -> 4
      [] s = "read_file" -> 5
      [] s = "take_screenshot" -> 6

\* The embedding model as a black box: text -> unit vector (scaled to
\* length 5), the same vector for the same text.  Two of the tool texts are
\* equally close to the query "browser".
ModelOutput(text) ==
    CASE text = "read_file Read contents from a file on the local filesystem" -> <<4, 3>>
      [] text = "read_file Read a file with an encoding" -> <<0, 5>>
      [] text = "click Click on an element in the browser page" -> <<3, 4>>
      [] text = "take_screenshot Take a screenshot of the current browser page or specific element" -> <<3, -4>>
      [] text = "read a file" -> <<4, 3>>
      [] text = "browser" -> <<5, 0>>

Queries == {"read a file", "browser"}

\* The embedding column: NULL, or a BLOB holding the model output (four
\* bytes per component, read back as length / 4 components).
NULL == [null |-> TRUE, data |-> <<>>]
Blob(vector) == [null |-> FALSE, data |-> vector]

-----------------------------------------------------------------------------
VARIABLES
    tools,          \* the tools table: its rows in rowid order (the order of a
                    \* scan without ORDER BY); ids are AUTOINCREMENT, so a row
                    \* written later stands later
    embedder,       \* the gateway's module variable: 0 (undefined) or the
                    \* pipeline instance, named by the request that loaded it
    pipelineCalls,  \* how many times the gateway has invoked pipeline(...)
    pc,             \* where each /search request stands
    model,          \* each request's `model' (generateEmbedding's local), 0 outside
                    \* the call
    response,       \* what the step just taken sent back (for populate: what
                    \* it wrote), NoResponse for a step that sends nothing
    lastUpsert,     \* history: per tool name, the tool populate wrote last
    populatePc,     \* populate's position in its loop body: "next" before an
                    \* iteration, "embedding" at await embedder(text, ...)
    pendingAtFailure
                    \* history: the requests still being served that were
                    \* awaiting pipeline(...) when another request's
                    \* pipeline(...) call rejected

vars == <<tools, embedder, pipelineCalls, pc, model, response, lastUpsert,
          populatePc, pendingAtFailure>>

NoResponse == [op |-> "none"]
NoTool == [name |-> ""]

Respond(op, request, body) == [op |-> op, request |-> request, body |-> body]

\* The rows of the table whose name is `name' (UNIQUE: at most one).
RowsNamed(table, name) == SelectSeq(table, LAMBDA row : row.name = name)

-----------------------------------------------------------------------------
(* populate: one iteration of its loop over SAMPLE_TOOLS.                  *)

\* const text = `${tool.name} ${tool.description}`; the row as stmt.run binds it
ToolRow(tool) ==
    [name |-> tool.name,
     description |-> tool.description,
     server |-> tool.server,
     category |-> tool.category,
     input_schema |-> JSONstringify(tool.inputSchema),
     embedding |-> Blob(ModelOutput(tool.name \o " " \o tool.description))]

\* Mutant of InsertOrReplace: a plain INSERT that keeps the conflicting row.
InsertKeepingOld(table, row) == Append(table, row)

\* INSERT OR REPLACE on the UNIQUE name: the conflicting row is deleted, the
\* new row gets the next id and so stands last.
InsertOrReplace(table, row) ==
    Append(SelectSeq(table, LAMBDA old : old.name # row.name), row)

\* populateEmbed with a two-step write: the row is stored before the await,
\* without its embedding, which a later statement fills in.
populateEmbedRowFirst ==
    /\ populatePc = "next"
    /\ populatePc' = "embedding"
    /\ \E tool \in SAMPLE_TOOLS :
          tools' = InsertOrReplace(tools, [ToolRow(tool) EXCEPT !.embedding = NULL])
    /\ response' = NoResponse
    /\ UNCHANGED <<embedder, pipelineCalls, pc, model, lastUpsert,
                   pendingAtFailure>>

\* An iteration starts: populate calls embedder(text, ...) and awaits it. The
\* gateway's handlers run while it waits. The iteration's tool is a local no
\* other step reads; it is drawn when the iteration writes.
populateEmbed ==
    /\ populatePc = "next"
    /\ populatePc' = "embedding"
    /\ response' = NoResponse
    /\ UNCHANGED <<tools, embedder, pipelineCalls, pc, model, lastUpsert,
                   pendingAtFailure>>

\* The await returns and stmt.run(...) writes the row in one statement.
populate(tool) ==
    /\ populatePc = "embedding"
    /\ populatePc' = "next"
    /\ tools' = InsertOrReplace(tools, ToolRow(tool))
    /\ lastUpsert' = [lastUpsert EXCEPT ![tool.name] = tool]
    /\ response' = Respond("populate", tool,
                           [replaced |-> RowsNamed(tools, tool.name) # <<>>])
    /\ UNCHANGED <<embedder, pipelineCalls, pc, model, pendingAtFailure>>

-----------------------------------------------------------------------------
(* searchTools                                                             *)

\* Mutant of SearchResult: the whole row is spread into the result.
SearchResultWithRow(queryEmbedding, tool) ==
    [name |-> tool.name,
     description |-> tool.description,
     server |-> tool.server,
     category |-> tool.category,
     input_schema |-> tool.input_schema,
     embedding |-> tool.embedding,
     similarity |-> cos_sim(queryEmbedding, tool.embedding.data)]

\* tools.map(...): one result per row, none left out
SearchResult(queryEmbedding, tool) ==
    [name |-> tool.name,
     description |-> tool.description,
     server |-> tool.server,
     category |-> tool.category,
     similarity |-> cos_sim(queryEmbedding, tool.embedding.data)]

MapResults(queryEmbedding, table) ==
    [i \in 1..Len(table) |-> SearchResult(queryEmbedding, table[i])]

RECURSIVE SortBySimilarity(_)

\* Mutant of InsertBySimilarity: the comparator's operands are swapped
\* (a.similarity - b.similarity), which sorts ascending.
InsertAscending(sorted, x) ==
    LET ahead == SelectSeq(sorted, LAMBDA a : a.similarity - x.similarity <= 0)
        behind == SelectSeq(sorted, LAMBDA a : a.similarity - x.similarity > 0)
    IN  ahead \o <<x>> \o behind

\* Array.prototype.sort is stable: under (a, b) => b.similarity - a.similarity
\* an element goes behind every element that is at least as similar.
InsertBySimilarity(sorted, x) ==
    LET ahead == SelectSeq(sorted, LAMBDA a : x.similarity - a.similarity <= 0)
        behind == SelectSeq(sorted, LAMBDA a : x.similarity - a.similarity > 0)
    IN  ahead \o <<x>> \o behind

SortBySimilarity(results) ==
    IF results = <<>> THEN <<>>
    ELSE InsertBySimilarity(SortBySimilarity(SubSeq(results, 1, Len(results) - 1)),
                            results[Len(results)])

\* Array.prototype.slice(0, end): a negative end counts from the back
slice(arr, end) ==
    LET to == IF end < 0 THEN (IF Len(arr) + end < 0 THEN 0 ELSE Len(arr) + end)
              ELSE (IF end > Len(arr) THEN Len(arr) ELSE end)
    IN  SubSeq(arr, 1, to)

\* Buffer.from(null) throws a TypeError: a row without embedding aborts the map
searchTools(queryEmbedding, limit) ==
    IF \E i \in 1..Len(tools) : tools[i].embedding.null
    THEN [threw |-> TRUE, value |-> <<>>]
    ELSE [threw |-> FALSE,
          value |-> slice(SortBySimilarity(MapResults(queryEmbedding, tools)), limit)]

-----------------------------------------------------------------------------
(* The gateway's handlers that answer at once.                             *)

Frame == UNCHANGED <<tools, embedder, pipelineCalls, pc, model, lastUpsert,
                     populatePc, pendingAtFailure>>

\* GET /health: SELECT COUNT(*)
Health ==
    /\ response' = Respond("GET /health", [none |-> TRUE],
                           [status |-> "ok", tools |-> Len(tools)])
    /\ Frame

\* ORDER BY server, name
RECURSIVE OrderByServerName(_)
InsertByServerName(sorted, x) ==
    LET Before(a) == \/ StringOrder(a.server) < StringOrder(x.server)
                     \/ /\ a.server = x.server
                        /\ StringOrder(a.name) <= StringOrder(x.name)
    IN  SelectSeq(sorted, Before) \o <<x>> \o SelectSeq(sorted, LAMBDA a : ~Before(a))

OrderByServerName(table) ==
    IF table = <<>> THEN <<>>
    ELSE InsertByServerName(OrderByServerName(Tail(table)), Head(table))

\* SELECT name, description, server, category
Metadata(row) ==
    [name |-> row.name, description |-> row.description,
     server |-> row.server, category |-> row.category]

\* GET /tools
ListTools ==
    /\ LET rows == OrderByServerName(tools)
       IN  response' = Respond("GET /tools", [none |-> TRUE],
                               [tools |-> [i \in 1..Len(rows) |-> Metadata(rows[i])]])
    /\ Frame

\* SELECT name, description, server, category, input_schema ... WHERE name = ?
\* and { ...tool, inputSchema: JSON.parse(tool.input_schema) }
ToolDetail(row) ==
    [name |-> row.name, description |-> row.description,
     server |-> row.server, category |-> row.category,
     input_schema |-> row.input_schema,
     inputSchema |-> JSONparse(row.input_schema)]

\* GET /tool/:name
GetTool(name) ==
    /\ LET found == RowsNamed(tools, name)
       IN  response' = Respond("GET /tool/:name", [name |-> name],
                               IF found = <<>> THEN [error |-> "Tool not found"]
                               ELSE ToolDetail(found[1]))
    /\ Frame

RequestedNames == ToolNames \cup {"nonexistent_tool"}

\* A body field that is absent is absent from the record.  {} is truthy.
ArgsValues == {JObject(<<>>), JObject(<< <<"path", JString("/tmp/x")>> >>)}

ExecuteBodies ==
    {[tool |-> n, args |-> a] : n \in {"read_file", "nonexistent_tool"}, a \in ArgsValues}
        \cup {[tool |-> "read_file"]}
        \cup {[args |-> JObject(<<>>)]}

\* The backends the gateway can reach: it keeps no registry and opens no
\* connection, so there is none.
BackendRegistry == {}

\* What POST /execute answers: the table is not read, nothing is forwarded.
ExecuteResult(body) ==
    IF "tool" \notin DOMAIN body \/ "args" \notin DOMAIN body
    THEN [error |-> "Tool and args required"]
    ELSE [success |-> TRUE, tool |-> body.tool, args |-> body.args,
          message |-> "POC: Tool execution would happen here.",
          note |-> "To implement: Forward request to MCP server based on tool.server field"]

\* POST /execute
Execute(body) ==
    /\ response' = Respond("POST /execute", body, ExecuteResult(body))
    /\ Frame

-----------------------------------------------------------------------------
(* POST /search.  The handler suspends at its awaits; a request stands at  *)
(*   "idle"       not yet received                                         *)
(*   "loading"    in getEmbedder, awaiting pipeline(...)                   *)
(*   "embedding"  in generateEmbedding, awaiting model(text, ...)          *)
(*   "done"       answered                                                 *)
(* Requests are numbered in their order of arrival.                        *)
(* The request body is the request's own constant: the state keeps the     *)
(* request's position only, and a step draws the body where it reads it    *)
(* (a request that fails before searchTools has read its query only).      *)

Limits == {-1, 0, 1, 2}

SearchBodies ==
    {[query |-> q, limit |-> l] : q \in Queries, l \in Limits}
        \cup {[query |-> q] : q \in Queries}
        \cup {[limit |-> l] : l \in {2}}
        \cup {[query |-> ""]}

\* !query
HasQuery(body) == "query" \in DOMAIN body /\ body.query # ""

\* const { query, limit = 5 } = body
LimitOf(body) == IF "limit" \in DOMAIN body THEN body.limit ELSE DefaultLimit

\* getEmbedder up to its await: `if (!embedder)' decides whether this caller
\* invokes pipeline(...); otherwise the caller gets the instance in place.
getEmbedder(r) ==
    IF embedder = 0
    THEN /\ pipelineCalls' = pipelineCalls + 1
         /\ pc' = [pc EXCEPT ![r] = "loading"]
         /\ UNCHANGED <<embedder, model>>
    ELSE /\ model' = [model EXCEPT ![r] = embedder]
         /\ pc' = [pc EXCEPT ![r] = "embedding"]
         /\ UNCHANGED <<embedder, pipelineCalls>>

\* The handler from the request's arrival to its first await.
SearchRequest(r, body) ==
    /\ pc[r] = "idle"
    /\ \A q \in Requests : q < r => pc[q] # "idle"
    /\ IF ~HasQuery(body)
       THEN /\ response' = Respond("POST /search", body, [error |-> "Query required"])
            /\ pc' = [pc EXCEPT ![r] = "done"]
            /\ UNCHANGED <<embedder, pipelineCalls, model>>
       ELSE /\ response' = NoResponse
            /\ getEmbedder(r)
    /\ UNCHANGED <<tools, lastUpsert, populatePc, pendingAtFailure>>

\* pipeline(...) resolves for r: embedder = <the new instance>; return embedder;
\* then generateEmbedding calls model(text, ...).
PipelineResolve(r) ==
    /\ pc[r] = "loading"
    /\ embedder' = r
    /\ model' = [model EXCEPT ![r] = r]
    /\ pc' = [pc EXCEPT ![r] = "embedding"]
    /\ response' = NoResponse
    /\ UNCHANGED <<tools, pipelineCalls, lastUpsert, populatePc, pendingAtFailure>>

\* pipeline(...) rejects for r: the assignment does not happen, the handler's
\* catch answers { error: error.message }.
PipelineReject(r, query) ==
    /\ pc[r] = "loading"
    /\ response' = Respond("POST /search", [query |-> query],
                           [error |-> "model load failed"])
    /\ pc' = [pc EXCEPT ![r] = "done"]
    /\ pendingAtFailure' = {q \in Requests \ {r} : pc[q] = "loading"}
                               \cup (pendingAtFailure \ {r})
    /\ UNCHANGED <<tools, embedder, pipelineCalls, model, lastUpsert, populatePc>>

\* What the handler answers once model(text, ...) has resolved:
\* searchTools(queryEmbedding, limit) inside the try.
SearchResponse(body) ==
    LET results == searchTools(ModelOutput(body.query), LimitOf(body))
    IN  IF results.threw THEN [error |-> "TypeError: The first argument must be of type string or an instance of Buffer"]
        ELSE [tools |-> results.value]

EmbedResolve(r, body) ==
    /\ pc[r] = "embedding"
    /\ HasQuery(body)
    /\ response' = Respond("POST /search", body, SearchResponse(body))
    /\ pc' = [pc EXCEPT ![r] = "done"]
    /\ model' = [model EXCEPT ![r] = 0]
    /\ pendingAtFailure' = pendingAtFailure \ {r}
    /\ UNCHANGED <<tools, embedder, pipelineCalls, lastUpsert, populatePc>>

\* EmbedReject with a catch that also drops the loaded instance
\* (embedder = undefined), forcing the next getEmbedder() to load again.
EmbedRejectInvalidating(r, query) ==
    /\ pc[r] = "embedding"
    /\ response' = Respond("POST /search", [query |-> query],
                           [error |-> "inference failed"])
    /\ pc' = [pc EXCEPT ![r] = "done"]
    /\ model' = [model EXCEPT ![r] = 0]
    /\ embedder' = 0
    /\ pendingAtFailure' = pendingAtFailure \ {r}
    /\ UNCHANGED <<tools, pipelineCalls, lastUpsert, populatePc>>

\* model(text, ...) rejects for r: the catch answers the error.
EmbedReject(r, query) ==
    /\ pc[r] = "embedding"
    /\ response' = Respond("POST /search", [query |-> query],
                           [error |-> "inference failed"])
    /\ pc' = [pc EXCEPT ![r] = "done"]
    /\ model' = [model EXCEPT ![r] = 0]
    /\ pendingAtFailure' = pendingAtFailure \ {r}
    /\ UNCHANGED <<tools, embedder, pipelineCalls, lastUpsert, populatePc>>

-----------------------------------------------------------------------------
\* A new database file (CREATE TABLE IF NOT EXISTS), a gateway just started.
Init ==
    /\ tools = <<>>
    /\ embedder = 0
    /\ pipelineCalls = 0
    /\ pc = [r \in Requests |-> "idle"]
    /\ model = [r \in Requests |-> 0]
    /\ response = NoResponse
    /\ lastUpsert = [name \in ToolNames |-> NoTool]
    /\ populatePc = "next"
    /\ pendingAtFailure = {}

Next ==
    \/ populateEmbed
    \/ \E tool \in SAMPLE_TOOLS : populate(tool)
    \/ Health
    \/ ListTools
    \/ \E name \in RequestedNames : GetTool(name)
    \/ \E body \in ExecuteBodies : Execute(body)
    \/ \E r \in Requests, body \in SearchBodies : SearchRequest(r, body)
    \/ \E r \in Requests : PipelineResolve(r)
    \/ \E r \in Requests, query \in Queries : PipelineReject(r, query)
    \/ \E r \in Requests, body \in SearchBodies : EmbedResolve(r, body)
    \/ \E r \in Requests, query \in Queries : EmbedReject(r, query)

Spec == Init /\ [][Next]_vars

\* A database file that already holds a row the table's schema admits and
\* this populate script did not write: `embedding BLOB' is nullable, and a
\* BLOB written with another embedding model has another length.
ForeignRows ==
    { [name |-> "click", description |-> "Click on an element",
       server |-> "chrome-devtools", category |-> "browser",
       input_schema |-> JSONstringify(SchemaUid), embedding |-> emb] :
      emb \in {NULL, Blob(<<3, 4, 12>>)} }

InitForeign ==
    /\ tools \in {<<row>> : row \in ForeignRows}
    /\ embedder = 0
    /\ pipelineCalls = 0
    /\ pc = [r \in Requests |-> "idle"]
    /\ model = [r \in Requests |-> 0]
    /\ response = NoResponse
    /\ lastUpsert = [name \in ToolNames |-> NoTool]
    /\ populatePc = "next"
    /\ pendingAtFailure = {}

SpecForeign == InitForeign /\ [][Next]_vars

-----------------------------------------------------------------------------
(* Properties.                                                             *)

IsSearch == response.op = "POST /search"
\* A /search answer that carries a result list.
IsSearchList == IsSearch /\ "tools" \in DOMAIN response.body

\* C1: however many /search requests call getEmbedder() before the first
\* load has completed, pipeline(...) is invoked exactly once, every caller
\* holds the same instance, and none proceeds without one.
C1_LoadedExactlyOnce ==
    /\ pipelineCalls <= 1
    /\ \A r1, r2 \in Requests :
          pc[r1] = "embedding" /\ pc[r2] = "embedding" => model[r1] = model[r2]
    /\ \A r \in Requests : pc[r] = "embedding" => model[r] # 0

\* C2: after any sequence of upserts the table holds at most one row per
\* tool name, and the row of a name carries the description, server,
\* category, input schema and embedding of the most recent upsert of it.
C2_UpsertByName ==
    \A name \in ToolNames :
        LET rows == RowsNamed(tools, name)
            tool == lastUpsert[name]
        IN  /\ Len(rows) <= 1
            /\ tool = NoTool => rows = <<>>
            /\ tool # NoTool =>
                  /\ Len(rows) = 1
                  /\ rows[1].description = tool.description
                  /\ rows[1].server = tool.server
                  /\ rows[1].category = tool.category
                  /\ JSONparse(rows[1].input_schema) = tool.inputSchema
                  /\ rows[1].embedding =
                        Blob(ModelOutput(tool.name \o " " \o tool.description))

\* C2's case: an upsert has replaced the row of a name while other rows stand.
C2_Witness ==
    /\ response.op = "populate"
    /\ response.body.replaced
    /\ response.request.description = "Read a file with an encoding"
    /\ Len(tools) = 3

\* C3: with a limit N >= 1 searchTools returns at most N results, similarity
\* non-increasing from first to last, no tool name twice; over an empty
\* table it returns the empty list and no error.
C3_RankedAtMostN ==
    IsSearch /\ HasQuery(response.request) /\ LimitOf(response.request) >= 1 =>
        /\ "error" \in DOMAIN response.body =>
              response.body.error \in {"model load failed", "inference failed"}
        /\ "tools" \in DOMAIN response.body =>
              LET results == response.body.tools IN
              /\ Len(results) <= LimitOf(response.request)
              /\ \A i, j \in 1..Len(results) :
                    /\ i < j => results[i].similarity >= results[j].similarity
                    /\ i # j => results[i].name # results[j].name
              /\ tools = <<>> => results = <<>>

\* C3's case: three rows ranked, the limit cutting the list to two entries
\* of different similarity.
C3_Witness ==
    /\ IsSearchList
    /\ Len(tools) = 3
    /\ LimitOf(response.request) = 2
    /\ Len(response.body.tools) = 2
    /\ response.body.tools[1].similarity > response.body.tools[2].similarity

IsExecute ==
    /\ response.op = "POST /execute"
    /\ "tool" \in DOMAIN response.request
    /\ "args" \in DOMAIN response.request

\* C4: an execute request naming a tool that is not in the table gets a
\* not-found error and never a success result.
C4_UnknownToolNotFound ==
    IsExecute /\ RowsNamed(tools, response.request.tool) = <<>> =>
        /\ "error" \in DOMAIN response.body
        /\ "success" \notin DOMAIN response.body

\* C5: an execute request for a tool of the table whose backend is not
\* registered or not reachable gets a backend-unavailable error and never a
\* success response.
C5_BackendUnavailable ==
    IsExecute =>
        \A i \in 1..Len(tools) :
            tools[i].name = response.request.tool /\ tools[i].server \notin BackendRegistry =>
                /\ "error" \in DOMAIN response.body
                /\ "success" \notin DOMAIN response.body

IsGetTool == response.op = "GET /tool/:name"

\* C6: fetching a tool by name returns the inputSchema it was last upserted
\* with; fetching a name that is not in the table returns a not-found error
\* and no schema.
C6_SchemaRoundTrip ==
    IsGetTool =>
        IF RowsNamed(tools, response.request.name) = <<>>
        THEN /\ DOMAIN response.body = {"error"}
             /\ response.body.error = "Tool not found"
        ELSE /\ "inputSchema" \in DOMAIN response.body
             /\ response.body.inputSchema = lastUpsert[response.request.name].inputSchema

\* C6's case: a schema with nested objects and a two-element array is
\* fetched back.
C6_Witness ==
    /\ IsGetTool
    /\ response.request.name = "read_file"
    /\ "inputSchema" \in DOMAIN response.body
    /\ response.body.inputSchema = SchemaPathEncoding

\* C7: an entry of the metadata listing holds name, description, server and
\* category only, an entry of a search result those and similarity; no
\* listing, search or schema answer holds an embedding.
C7_NoSchemaNoEmbedding ==
    /\ response.op = "GET /tools" =>
          \A i \in 1..Len(response.body.tools) :
              DOMAIN response.body.tools[i] = {"name", "description", "server", "category"}
    /\ IsSearchList =>
          \A i \in 1..Len(response.body.tools) :
              DOMAIN response.body.tools[i] =
                  {"name", "description", "server", "category", "similarity"}
    /\ IsGetTool => "embedding" \notin DOMAIN response.body

\* C7's case: a search answer with entries.
C7_Witness == IsSearchList /\ Len(response.body.tools) >= 2

\* C8: a search with limit <= 0 is rejected with an error and returns no
\* result list.
C8_RejectsNonPositiveLimit ==
    /\ IsSearch
    /\ HasQuery(response.request)
    /\ "limit" \in DOMAIN response.request
    /\ response.request.limit <= 0
    => /\ "error" \in DOMAIN response.body
       /\ "tools" \notin DOMAIN response.body

\* C9: a search result is ordered by similarity descending, entries of equal
\* similarity by name ascending (so the order depends on the set of rows
\* only, not on the order they were written in).
C9_TiesByName ==
    IsSearchList =>
        LET results == response.body.tools IN
        \A i, j \in 1..Len(results) :
            i < j =>
                \/ results[i].similarity > results[j].similarity
                \/ /\ results[i].similarity = results[j].similarity
                   /\ StringOrder(results[i].name) < StringOrder(results[j].name)

\* The rows searchTools can rank against the query vector: an embedding is
\* stored and has the query vector's dimension.
Rankable(row, queryEmbedding) ==
    ~row.embedding.null /\ Len(row.embedding.data) = Len(queryEmbedding)

\* C10: a row whose embedding is absent or of another dimension than the
\* query vector is skipped: it never makes the search fail, it never appears
\* in the results, and the other rows are still ranked.
C10_SkipsBadRecords ==
    IsSearch /\ HasQuery(response.request) =>
        LET q == ModelOutput(response.request.query)
            good == {i \in 1..Len(tools) : Rankable(tools[i], q)}
        IN  /\ "error" \in DOMAIN response.body =>
                  response.body.error \in {"model load failed", "inference failed"}
            /\ "tools" \in DOMAIN response.body =>
                  LET results == response.body.tools IN
                  /\ \A k \in 1..Len(results) :
                        \E i \in good : tools[i].name = results[k].name
                  /\ LimitOf(response.request) >= Len(tools) =>
                        \A i \in good :
                            \E k \in 1..Len(results) : results[k].name = tools[i].name

\* C11: when a pipeline(...) call rejects, every /search request that was
\* awaiting the model at that moment is answered with an error, never with a
\* result list; and no /search request is answered with a result list while
\* no pipeline(...) call has succeeded.
C11_FailureSurfacedToPending ==
    [][ /\ (embedder' = 0 => ~IsSearchList')
        /\ \A r \in pendingAtFailure :
              pc[r] = "embedding" /\ pc'[r] = "done" => ~IsSearchList' ]_vars

\* A /search answer reporting that model(text, ...) rejected.
IsEmbedFailure == IsSearch /\ response.body = [error |-> "inference failed"]

\* C13: a step in which a /search request is answered with the error of a
\* rejected model(text, ...) call ends that request only: the tools table,
\* the loaded embedder and the number of pipeline(...) calls are unchanged,
\* exactly the failing request moves (from awaiting the model call to done),
\* and every other request awaiting its model call still holds its instance.
C13_EmbedFailureIsPerCall ==
    [][ IsEmbedFailure' =>
          /\ tools' = tools
          /\ embedder' = embedder /\ embedder' # 0
          /\ pipelineCalls' = pipelineCalls
          /\ \E r \in Requests :
                /\ pc[r] = "embedding" /\ pc'[r] = "done"
                /\ \A q \in Requests \ {r} :
                      /\ pc'[q] = pc[q]
                      /\ model'[q] = model[q]
                      /\ pc[q] = "embedding" => model[q] # 0 ]_vars

\* A model call has just failed for one request while another request is
\* awaiting its own model call on a loaded instance and can be answered with
\* a result list.
C13_Witness ==
    /\ IsEmbedFailure
    /\ embedder # 0
    /\ \E q \in Requests, body \in SearchBodies :
          /\ pc[q] = "embedding"
          /\ HasQuery(body)
          /\ "tools" \in DOMAIN SearchResponse(body)
          /\ Len(SearchResponse(body).tools) > 0

\* The names of a sequence of records are pairwise distinct.
DistinctNames(records) ==
    \A i, j \in 1..Len(records) : i # j => records[i].name # records[j].name

\* C14: whatever populate is doing, also while it awaits an embedding, what a
\* reader can select from the table holds at most one row per name, and every
\* row is whole: it is the row of the tool last upserted under its name, with
\* its embedding and its input schema. Accordingly no listing and no search
\* result names a tool twice, no search fails on a missing embedding, and a
\* schema fetch of a stored tool returns a schema.
C14_ReplaceAtomicForReaders ==
    /\ DistinctNames(tools)
    /\ \A i \in 1..Len(tools) :
          /\ ~tools[i].embedding.null
          /\ tools[i].input_schema # ""
          /\ tools[i] = ToolRow(lastUpsert[tools[i].name])
    /\ response.op = "GET /tools" =>
          /\ DistinctNames(response.body.tools)
          /\ Len(response.body.tools) = Len(tools)
    /\ IsSearch /\ "error" \in DOMAIN response.body =>
          response.body.error \in {"Query required", "model load failed", "inference failed"}
    /\ IsSearchList => DistinctNames(response.body.tools)
    /\ IsGetTool /\ RowsNamed(tools, response.request.name) # <<>> =>
          "inputSchema" \in DOMAIN response.body

\* populate awaits the embedding of an upsert while every name is already
\* stored, and a search and ranking of the three rows has just been answered.
C14_Witness ==
    /\ populatePc = "embedding"
    /\ Len(tools) = 3
    /\ IsSearchList
    /\ Len(response.body.tools) = 2

=============================================================================
